---- MODULE Spec2Model ----
(***************************************************************************)
(* A model of src/app.py: the Flask endpoint POST /process_message         *)
(* (handle_process_message), the formatter format_chat_data, and the       *)
(* interpretation of the answer of the agent runtime (crew.kickoff).       *)
(*                                                                         *)
(* Strings whose content matters (message texts, transcripts, the raw      *)
(* output of the agent) are sequences of one-character strings, so that    *)
(* str.strip, "\n".join and the substring test of `in` are computed.       *)
(* Fixed messages (error texts, exception texts) are atomic strings.       *)
(* A JSON value is a record with the same fields whatever its type, the    *)
(* field kind telling which of them is meaningful.                         *)
(***************************************************************************)
EXTENDS Integers, Sequences, FiniteSets, TLC

\* ------------------------------------------------------------- bounds

\* Longest history list of a request.
MaxHistory == 2

\* Longest run of whitespace put before and after the agent's raw output.
MaxPad == 1

\* ------------------------------------------------------------ strings

SeqsUpTo(S, n) == UNION {[1..k -> S] : k \in 0..n}

\* The characters str.strip() removes (the ASCII ones TLA+ can write).
Whitespace == {" ", "\t", "\n", "\r", "\f"}

\* NO_RESPONSE_MARKER = "NO_RESPONSE"
NO_RESPONSE_MARKER == <<"N", "O", "_", "R", "E", "S", "P", "O", "N", "S", "E">>

RECURSIVE lstrip(_)
lstrip(s) ==
    IF s = <<>> \/ Head(s) \notin Whitespace THEN s ELSE lstrip(Tail(s))

RECURSIVE rstrip(_)
rstrip(s) ==
    IF s = <<>> \/ s[Len(s)] \notin Whitespace
    THEN s
    ELSE rstrip(SubSeq(s, 1, Len(s) - 1))

\* A faulty variant of strip: only leading whitespace is removed.
stripLeadingOnly(s) == lstrip(s)

\* str.strip()
strip(s) == rstrip(lstrip(s))

RECURSIVE joinWith(_, _)
joinWith(sep, lines) ==
    IF lines = <<>> THEN <<>>
    ELSE IF Len(lines) = 1 THEN lines[1]
    ELSE lines[1] \o sep \o joinWith(sep, Tail(lines))

\* A faulty variant of join: the lines are concatenated with no separator.
joinNoSeparator(lines) == joinWith(<<>>, lines)

\* "\n".join(lines)
join(lines) == joinWith(<<"\n">>, lines)

\* `needle in haystack` on two str values: the substring test.
IsSubstring(needle, haystack) ==
    \E i \in 0..(Len(haystack) - Len(needle)) :
        SubSeq(haystack, i + 1, i + Len(needle)) = needle

\* ------------------------------------------------------- JSON values

\* The keys the handler looks for, and one it ignores.
K_chat_id == <<"c", "h", "a", "t", "_", "i", "d">>
K_new_message == <<"n", "e", "w", "_", "m", "e", "s", "s", "a", "g", "e">>
K_history == <<"h", "i", "s", "t", "o", "r", "y">>
K_other == <<"x">>
RequiredKeys == {K_chat_id, K_new_message, K_history}

\* A JSON value in the place of a message: {"sender": ..., "text": ...} when
\* kind = "obj" (either key may be absent), else a number, a string or null.
MsgObj(hs, ht, sender, text) ==
    [kind |-> "obj", has_sender |-> hs, has_text |-> ht,
     sender |-> IF hs THEN sender ELSE <<>>, text |-> IF ht THEN text ELSE <<>>]
MsgOther(kind) ==
    [kind |-> kind, has_sender |-> FALSE, has_text |-> FALSE,
     sender |-> <<>>, text |-> <<>>]

\* A JSON value in the place of history. items: what iterating it yields
\* (the elements of a list, the characters of a string); unused otherwise.
Hist(kind, items) == [kind |-> kind, items |-> items]

\* The parsed body. b: the value of a bool; n: of a number; s: of a string;
\* items: the elements of a list (strings); keys and the three values: of an
\* object. kind = "invalid" is a body that is no JSON text.
Body(kind) ==
    [kind |-> kind, b |-> FALSE, n |-> 0, s |-> <<>>, items |-> <<>>,
     keys |-> {}, chat_id |-> 0,
     new_message |-> MsgOther("null"), history |-> Hist("null", <<>>)]
BoolBody(b) == [Body("bool") EXCEPT !.b = b]
NumBody(n) == [Body("num") EXCEPT !.n = n]
StrBody(s) == [Body("str") EXCEPT !.s = s]
ListBody(items) == [Body("list") EXCEPT !.items = items]
ObjBody(keys, chat_id, new_message, history) ==
    [Body("obj") EXCEPT !.keys = keys,
        !.chat_id = IF K_chat_id \in keys THEN chat_id ELSE 0,
        !.new_message =
            IF K_new_message \in keys THEN new_message ELSE MsgOther("null"),
        !.history = IF K_history \in keys THEN history ELSE Hist("null", <<>>)]

Request(is_json, body) == [is_json |-> is_json, body |-> body]

\* ------------------------------------------------- Python on JSON values

\* bool(data): None, False, 0, "", [] and {} are false.
Truthy(data) ==
    CASE data.kind = "null" -> FALSE
      [] data.kind = "bool" -> data.b
      [] data.kind = "num" -> data.n # 0
      [] data.kind = "str" -> data.s # <<>>
      [] data.kind = "list" -> data.items # <<>>
      [] data.kind = "obj" -> data.keys # {}

\* `key in data` raises TypeError on a bool or a number.
InRaises(data) == data.kind \in {"bool", "num"}

\* `key in data`: a key of a dict, an element of a list, a substring of a str.
In(key, data) ==
    CASE data.kind = "obj" -> key \in data.keys
      [] data.kind = "list" -> \E i \in 1..Len(data.items) : data.items[i] = key
      [] data.kind = "str" -> IsSubstring(key, data.s)

\* `data['chat_id']` raises TypeError on a list or a str (the index is a str).
SubscriptRaises(data) == data.kind \in {"list", "str"}

\* What msg['sender'] and msg['text'] of line 122 raise on msg, "" if nothing.
MsgError(msg) ==
    CASE msg.kind = "obj" /\ ~msg.has_sender -> "KeyError: 'sender'"
      [] msg.kind = "obj" /\ msg.has_sender /\ ~msg.has_text -> "KeyError: 'text'"
      [] msg.kind = "obj" /\ msg.has_sender /\ msg.has_text -> ""
      [] msg.kind = "str" -> "TypeError: string indices must be integers"
      [] msg.kind = "num" -> "TypeError: 'int' object is not subscriptable"
      [] msg.kind = "null" -> "TypeError: 'NoneType' object is not subscriptable"

\* f"[{msg['sender']}]: {msg['text']}"
formatMsg(msg) == <<"[">> \o msg.sender \o <<"]", ":", " ">> \o msg.text

\* Iterating history raises TypeError when it is a number or null.
IterError(history) ==
    CASE history.kind = "num" -> "TypeError: 'int' object is not iterable"
      [] history.kind = "null" -> "TypeError: 'NoneType' object is not iterable"
      [] OTHER -> ""

\* The first exception of the list comprehension over history, "" if none.
RECURSIVE ItemsError(_)
ItemsError(items) ==
    IF items = <<>> THEN ""
    ELSE IF MsgError(Head(items)) # "" THEN MsgError(Head(items))
    ELSE ItemsError(Tail(items))

\* The exception format_chat_data raises, "" if it returns: history is
\* formatted first, then new_message.
FormatError(history, new_message) ==
    IF IterError(history) # "" THEN IterError(history)
    ELSE IF ItemsError(history.items) # "" THEN ItemsError(history.items)
    ELSE MsgError(new_message)

\* format_chat_data(history, new_message) when it returns.
format_chat_data(history, new_message) ==
    [history_str |->
        join([i \in 1..Len(history.items) |-> formatMsg(history.items[i])]),
     new_message_str |-> formatMsg(new_message)]

\* ------------------------------------------------------------ responses

NullText == [null |-> TRUE, s |-> <<>>]
Text(s) == [null |-> FALSE, s |-> s]

\* No response yet.
NoResponse ==
    [status |-> 0, ctype |-> "", keys |-> {}, error |-> "",
     response_text |-> NullText]

\* jsonify({"error": message}), status
ErrorResponse(status, message) ==
    [status |-> status, ctype |-> "json", keys |-> {"error"}, error |-> message,
     response_text |-> NullText]

\* jsonify({"response_text": response_text}), with the default status 200
TextResponse(response_text) ==
    [status |-> 200, ctype |-> "json", keys |-> {"response_text"}, error |-> "",
     response_text |-> response_text]

\* Flask's own answer to an HTTPException or to an exception the view did
\* not catch: an HTML page, no JSON body.
FlaskResponse(status) ==
    [status |-> status, ctype |-> "html", keys |-> {}, error |-> "",
     response_text |-> NullText]

\* ---------------------------------------------------------- the agent

\* What crew.kickoff returns. kind = "output": a CrewOutput, whose raw is a
\* str or None; kind = "none": None; kind = "other": an object that is true
\* and has no attribute raw.
CrewOutput(raw) == [kind |-> "output", raw |-> raw]
CrewNone == [kind |-> "none", raw |-> NullText]
CrewOther == [kind |-> "other", raw |-> NullText]

\* `crew_result and crew_result.raw` raises AttributeError.
InterpretRaises(crew_result) == crew_result.kind = "other"

\* A faulty variant of ResponseText: the raw output is stripped before it is
\* tested for emptiness.
ResponseTextStripFirst(crew_result) ==
    IF /\ crew_result.kind = "output"
       /\ ~crew_result.raw.null
       /\ strip(crew_result.raw.s) # <<>>
       /\ strip(crew_result.raw.s) # NO_RESPONSE_MARKER
    THEN Text(strip(crew_result.raw.s))
    ELSE NullText

\* A faulty variant of ResponseText: the raw output is compared unstripped.
ResponseTextRawCompare(crew_result) ==
    IF /\ crew_result.kind = "output"
       /\ ~crew_result.raw.null
       /\ crew_result.raw.s # <<>>
       /\ crew_result.raw.s # NO_RESPONSE_MARKER
    THEN Text(strip(crew_result.raw.s))
    ELSE NullText

\* response_text of lines 168-173, when nothing raises.
ResponseText(crew_result) ==
    IF /\ crew_result.kind = "output"
       /\ ~crew_result.raw.null
       /\ crew_result.raw.s # <<>>
       /\ strip(crew_result.raw.s) # NO_RESPONSE_MARKER
    THEN Text(strip(crew_result.raw.s))
    ELSE NullText

\* ------------------------------------------------------------- inputs

Requests == {"r1", "r2"}

Alice == <<"A">>
Bob == <<"B">>
Hi == <<"h", "i">>
Yo == <<"y", "o">>
TwoLines == <<"a", "\n", "b">>

\* Messages as the caller is expected to send them.
ValidMsgs ==
    {MsgObj(TRUE, TRUE, Alice, Hi), MsgObj(TRUE, TRUE, Bob, Yo),
     MsgObj(TRUE, TRUE, Bob, TwoLines)}

\* What a history list may hold: messages, a message without its sender, a
\* string.
HistoryItems == ValidMsgs \cup {MsgObj(FALSE, TRUE, <<>>, Hi), MsgOther("str")}

Histories ==
    {Hist("list", items) : items \in SeqsUpTo(HistoryItems, MaxHistory)}
    \cup {Hist("num", <<>>), Hist("null", <<>>), Hist("str", <<>>),
          Hist("str", <<MsgOther("str"), MsgOther("str")>>)}

NewMessages ==
    ValidMsgs \cup {MsgObj(TRUE, FALSE, Alice, <<>>), MsgOther("num")}

\* Bodies that are JSON objects: every set of keys, and every history and
\* new_message when the three required keys are there.
ObjBodies ==
    {ObjBody(keys, 1, MsgOther("null"), Hist("null", <<>>)) :
        keys \in (SUBSET (RequiredKeys \cup {K_other})) \ {RequiredKeys}}
    \cup {ObjBody(RequiredKeys, 1, m, h) : m \in NewMessages, h \in Histories}

\* Bodies of the other JSON types, and a body that is no JSON text.
OtherBodies ==
    {Body("invalid"), Body("null"), BoolBody(FALSE), BoolBody(TRUE),
     NumBody(0), NumBody(5),
     StrBody(<<>>), StrBody(Hi), StrBody(K_chat_id),
     StrBody(K_chat_id \o <<" ">> \o K_new_message \o <<" ">> \o K_history),
     ListBody(<<>>), ListBody(<<K_chat_id>>),
     ListBody(<<K_history, K_new_message, K_chat_id>>)}

ValidBody1 ==
    ObjBody(RequiredKeys, 1, MsgObj(TRUE, TRUE, Bob, TwoLines),
            Hist("list", <<MsgObj(TRUE, TRUE, Alice, Hi)>>))
ValidBody2 ==
    ObjBody(RequiredKeys, 1, MsgObj(TRUE, TRUE, Alice, Hi), Hist("list", <<>>))

\* Every request of the model: is_json is the Content-Type, the body is
\* independent of it.
Payloads ==
    {Request(TRUE, b) : b \in ObjBodies \cup OtherBodies}
    \cup {Request(FALSE, b) : b \in {Body("invalid"), ValidBody1}}

\* A request that is answered at once.
TinyPayloads == {Request(FALSE, Body("invalid"))}

\* The requests handled concurrently: one for each way the handler ends.
SmallPayloads ==
    {Request(FALSE, ValidBody1), Request(TRUE, Body("invalid")),
     Request(TRUE, NumBody(5)),
     Request(TRUE, ObjBody({K_chat_id}, 1, MsgOther("null"), Hist("null", <<>>))),
     Request(TRUE, ObjBody(RequiredKeys, 1, MsgOther("num"), Hist("list", <<>>))),
     Request(TRUE, ValidBody1), Request(TRUE, ValidBody2)}

\* The raw outputs of the agent: a core, with whitespace around it.
Pads == SeqsUpTo({" ", "\n"}, MaxPad)
Cores ==
    {<<>>, NO_RESPONSE_MARKER, Hi, <<"h", " ", "i">>,
     NO_RESPONSE_MARKER \o <<"!">>, <<"N", "O">>}
Raws == {pre \o core \o post : pre \in Pads, core \in Cores, post \in Pads}

\* What crew.kickoff may return.
CrewResults ==
    {CrewOutput(Text(raw)) : raw \in Raws}
    \cup {CrewOutput(NullText), CrewNone, CrewOther}

\* What crew.kickoff may raise.
KickoffErrors == {"ConnectionError: upstream unreachable"}

\* -------------------------------------------------------------- state

VARIABLES
    req,              \* the request: its Content-Type and body
    pc,               \* where the handler of the request is
    data,             \* data = request.get_json()
    history_str,      \* the locals of handle_process_message
    new_message_str,
    inputs,           \* the inputs crew.kickoff was called with
    kickoff_calls,    \* how many times crew.kickoff was called for the request
    crew_result,
    e,                \* the exception raised while handling the request
    response          \* the response sent

vars ==
    <<req, pc, data, history_str, new_message_str, inputs, kickoff_calls,
      crew_result, e, response>>

NoInputs == [chat_history |-> <<>>, new_message |-> <<>>]

Start(payloads) ==
    /\ req = payloads
    /\ pc = [r \in Requests |-> "is_json"]
    /\ data = [r \in Requests |-> Body("null")]
    /\ history_str = [r \in Requests |-> <<>>]
    /\ new_message_str = [r \in Requests |-> <<>>]
    /\ inputs = [r \in Requests |-> NoInputs]
    /\ kickoff_calls = [r \in Requests |-> 0]
    /\ crew_result = [r \in Requests |-> CrewNone]
    /\ e = [r \in Requests |-> ""]
    /\ response = [r \in Requests |-> NoResponse]

\* One request of any shape, the others answered at once.
Init ==
    \E r \in Requests : \E p \in Payloads :
        \E others \in [Requests -> TinyPayloads] :
            Start([others EXCEPT ![r] = p])

\* Several requests in flight together.
InitConc == \E payloads \in [Requests -> SmallPayloads] : Start(payloads)

\* ------------------------------------------------- handle_process_message

\* return <response>: the handler of r ends.
Return(r, resp) ==
    /\ response' = [response EXCEPT ![r] = resp]
    /\ pc' = [pc EXCEPT ![r] = "done"]

\* A faulty variant of NotJsonResponse: the status is left at its default.
NotJsonResponseOk == [ErrorResponse(400, "Request must be JSON") EXCEPT !.status = 200]

NotJsonResponse == ErrorResponse(400, "Request must be JSON")

MissingFieldsResponse ==
    ErrorResponse(400, "Missing required fields: chat_id, new_message, history")

\* A faulty variant of FormattingErrorResponse: the exception is sent back.
FormattingErrorLeaks(exc) == ErrorResponse(500, exc)

FormattingErrorResponse(exc) ==
    ErrorResponse(500, "Internal server error formatting data")

\* A faulty variant of AIErrorResponse: the exception is sent back.
AIErrorLeaks(exc) == ErrorResponse(500, exc)

AIErrorResponse(exc) ==
    ErrorResponse(500, "Internal server error processing message with AI")

\* if not request.is_json: return 400
CheckIsJson(r) ==
    /\ pc[r] = "is_json"
    /\ IF ~req[r].is_json
       THEN Return(r, NotJsonResponse)
       ELSE /\ pc' = [pc EXCEPT ![r] = "get_json"]
            /\ UNCHANGED response
    /\ UNCHANGED <<req, data, history_str, new_message_str, inputs,
                   kickoff_calls, crew_result, e>>

\* data = request.get_json(): a body that does not parse raises BadRequest,
\* which Flask answers with its own 400.
GetJson(r) ==
    /\ pc[r] = "get_json"
    /\ IF req[r].body.kind = "invalid"
       THEN /\ Return(r, FlaskResponse(400))
            /\ e' = [e EXCEPT ![r] = "BadRequest: Failed to decode JSON object"]
            /\ UNCHANGED data
       ELSE /\ data' = [data EXCEPT ![r] = req[r].body]
            /\ pc' = [pc EXCEPT ![r] = "validate"]
            /\ UNCHANGED <<response, e>>
    /\ UNCHANGED <<req, history_str, new_message_str, inputs, kickoff_calls,
                   crew_result>>

\* The condition of line 139, evaluated left to right: "missing" when it is
\* true, "ok" when it is false, "raise" when `in` raises TypeError.
FieldCheck(d) ==
    IF ~Truthy(d) THEN "missing"
    ELSE IF InRaises(d) THEN "raise"
    ELSE IF \E k \in RequiredKeys : ~In(k, d) THEN "missing"
    ELSE "ok"

\* Lines 139-145: the check of the required fields, then data['chat_id'],
\* data['new_message'], data['history']. Neither is inside a try: a
\* TypeError leaves the view and Flask answers 500.
ValidateFields(r) ==
    /\ pc[r] = "validate"
    /\ CASE FieldCheck(data[r]) = "missing" ->
                /\ Return(r, MissingFieldsResponse)
                /\ UNCHANGED e
         [] FieldCheck(data[r]) = "raise" ->
                /\ Return(r, FlaskResponse(500))
                /\ e' = [e EXCEPT ![r] = "TypeError: argument is not iterable"]
         [] FieldCheck(data[r]) = "ok" /\ SubscriptRaises(data[r]) ->
                /\ Return(r, FlaskResponse(500))
                /\ e' = [e EXCEPT ![r] = "TypeError: indices must be integers"]
         [] FieldCheck(data[r]) = "ok" /\ ~SubscriptRaises(data[r]) ->
                /\ pc' = [pc EXCEPT ![r] = "format"]
                /\ UNCHANGED <<response, e>>
    /\ UNCHANGED <<req, data, history_str, new_message_str, inputs,
                   kickoff_calls, crew_result>>

\* Lines 148-154: try format_chat_data, except Exception: return 500.
FormatData(r) ==
    /\ pc[r] = "format"
    /\ LET history == data[r].history
           new_message == data[r].new_message
           exc == FormatError(history, new_message)
           out == format_chat_data(history, new_message)
       IN IF exc # ""
          THEN /\ e' = [e EXCEPT ![r] = exc]
               /\ Return(r, FormattingErrorResponse(exc))
               /\ UNCHANGED <<history_str, new_message_str>>
          ELSE /\ history_str' = [history_str EXCEPT ![r] = out.history_str]
               /\ new_message_str' =
                      [new_message_str EXCEPT ![r] = out.new_message_str]
               /\ pc' = [pc EXCEPT ![r] = "kickoff"]
               /\ UNCHANGED <<response, e>>
    /\ UNCHANGED <<req, data, inputs, kickoff_calls, crew_result>>

\* A faulty variant of KickoffInputs: the formatted strings are kept in one
\* place for all requests, and the handler reads what the first request that
\* formatted left there.
KickoffInputsShared(r) ==
    LET q == CHOOSE x \in Requests : pc[x] \in {"kickoff", "running", "interpret"}
    IN [chat_history |-> history_str[q], new_message |-> new_message_str[q]]

\* inputs = {'chat_history': history_str, 'new_message': new_message_str}
KickoffInputs(r) ==
    [chat_history |-> history_str[r], new_message |-> new_message_str[r]]

\* crew.kickoff(inputs=inputs) is called; the handler waits for it.
KickoffCall(r) ==
    /\ pc[r] = "kickoff"
    /\ inputs' = [inputs EXCEPT ![r] = KickoffInputs(r)]
    /\ kickoff_calls' = [kickoff_calls EXCEPT ![r] = @ + 1]
    /\ pc' = [pc EXCEPT ![r] = "running"]
    /\ UNCHANGED <<req, data, history_str, new_message_str, crew_result, e,
                   response>>

\* crew.kickoff returns.
KickoffReturns(r) ==
    /\ pc[r] = "running"
    /\ \E result \in CrewResults :
           crew_result' = [crew_result EXCEPT ![r] = result]
    /\ pc' = [pc EXCEPT ![r] = "interpret"]
    /\ UNCHANGED <<req, data, history_str, new_message_str, inputs,
                   kickoff_calls, e, response>>

\* A faulty variant of KickoffRaises: crew.kickoff is called again.
KickoffRetries(r) ==
    /\ pc[r] = "running"
    /\ kickoff_calls[r] < 3
    /\ \E exc \in KickoffErrors : e' = [e EXCEPT ![r] = exc]
    /\ pc' = [pc EXCEPT ![r] = "kickoff"]
    /\ UNCHANGED <<req, data, history_str, new_message_str, inputs,
                   kickoff_calls, crew_result, response>>

\* crew.kickoff raises: except Exception of line 177, return 500.
KickoffRaises(r) ==
    /\ pc[r] = "running"
    /\ \E exc \in KickoffErrors :
           /\ e' = [e EXCEPT ![r] = exc]
           /\ Return(r, AIErrorResponse(exc))
    /\ UNCHANGED <<req, data, history_str, new_message_str, inputs,
                   kickoff_calls, crew_result>>

\* Lines 168-179: response_text from crew_result; an exception there is
\* caught by the same except Exception.
InterpretResult(r) ==
    /\ pc[r] = "interpret"
    /\ IF InterpretRaises(crew_result[r])
       THEN LET exc == "AttributeError: object has no attribute 'raw'"
            IN /\ e' = [e EXCEPT ![r] = exc]
               /\ Return(r, AIErrorResponse(exc))
       ELSE /\ Return(r, TextResponse(ResponseText(crew_result[r])))
            /\ UNCHANGED e
    /\ UNCHANGED <<req, data, history_str, new_message_str, inputs,
                   kickoff_calls, crew_result>>

Next ==
    \E r \in Requests :
        \/ CheckIsJson(r)
        \/ GetJson(r)
        \/ ValidateFields(r)
        \/ FormatData(r)
        \/ KickoffCall(r)
        \/ KickoffReturns(r)
        \/ KickoffRaises(r)
        \/ InterpretResult(r)

Spec == Init /\ [][Next]_vars

SpecConc == InitConc /\ [][Next]_vars

\* ---------------------------------------------------------- properties

Done(r) == pc[r] = "done"

\* format_chat_data has returned for r.
Formatted(r) ==
    \/ pc[r] \in {"kickoff", "running", "interpret"}
    \/ Done(r) /\ kickoff_calls[r] > 0

\* crew.kickoff has returned a CrewOutput with a str raw for r, and the
\* handler has answered.
Answered(r) ==
    /\ Done(r)
    /\ crew_result[r].kind = "output"
    /\ ~crew_result[r].raw.null

AllWhitespace(s) == \A i \in 1..Len(s) : s[i] \in Whitespace

\* t is raw without its leading and trailing whitespace: raw is t between two
\* runs of whitespace, and t neither starts nor ends with whitespace.
IsTrimOf(t, raw) ==
    /\ t = <<>> \/ (t[1] \notin Whitespace /\ t[Len(t)] \notin Whitespace)
    /\ \E i \in 0..(Len(raw) - Len(t)) :
           /\ SubSeq(raw, i + 1, i + Len(t)) = t
           /\ AllWhitespace(SubSeq(raw, 1, i))
           /\ AllWhitespace(SubSeq(raw, i + Len(t) + 1, Len(raw)))

\* The body lacks one of the three fields: it is no object, or an object
\* without one of the keys.
LacksField(body) == body.kind # "obj" \/ ~(RequiredKeys \subseteq body.keys)

\* C1: every request with a JSON body (of any JSON type) that lacks one of
\* chat_id, new_message, history is answered 400 with the body
\* {"error": "Missing required fields: chat_id, new_message, history"}.
C1_MissingFieldIs400 ==
    \A r \in Requests :
        (Done(r) /\ req[r].is_json /\ req[r].body.kind # "invalid"
            /\ LacksField(req[r].body))
        => response[r] =
               [status |-> 400, ctype |-> "json", keys |-> {"error"},
                error |-> "Missing required fields: chat_id, new_message, history",
                response_text |-> NullText]

RequestMustBeJson ==
    [status |-> 400, ctype |-> "json", keys |-> {"error"},
     error |-> "Request must be JSON", response_text |-> NullText]

\* C2, as claimed: every request whose body is not JSON is answered 400 with
\* the body {"error": "Request must be JSON"}.
C2_NonJsonBodyIsRejected ==
    \A r \in Requests :
        (Done(r) /\ req[r].body.kind = "invalid")
        => response[r] = RequestMustBeJson

\* C2, amended: every request whose body is not JSON is answered 400; the
\* body is {"error": "Request must be JSON"} for every request whose
\* Content-Type is not JSON, whatever its body, and it is Flask's own 400
\* page for a non-JSON body sent with a JSON Content-Type.
C2_NonJsonContentTypeIsRejected ==
    \A r \in Requests :
        /\ (Done(r) /\ ~req[r].is_json) => response[r] = RequestMustBeJson
        /\ (Done(r) /\ req[r].body.kind = "invalid") => response[r].status = 400
        /\ (Done(r) /\ req[r].is_json /\ req[r].body.kind = "invalid")
           => response[r].ctype = "html"

C2_Witness ==
    \E r \in Requests :
        Done(r) /\ ~req[r].is_json /\ req[r].body.kind = "obj"

NullReply ==
    [status |-> 200, ctype |-> "json", keys |-> {"response_text"},
     error |-> "", response_text |-> [null |-> TRUE, s |-> <<>>]]

\* C4: when the raw output of the agent, without its leading and trailing
\* whitespace, is the sentinel, the response is 200 {"response_text": null}.
C4_SentinelIsNull ==
    \A r \in Requests :
        (Answered(r) /\ IsTrimOf(NO_RESPONSE_MARKER, crew_result[r].raw.s))
        => response[r] = NullReply

C4_Witness ==
    \E r \in Requests :
        /\ Answered(r)
        /\ IsTrimOf(NO_RESPONSE_MARKER, crew_result[r].raw.s)
        /\ Len(crew_result[r].raw.s) > Len(NO_RESPONSE_MARKER)
        /\ response[r] = NullReply

\* C5: when the agent returns a non-empty string that is not the sentinel
\* (optionally surrounded by whitespace), the response is 200 with
\* response_text that string without its leading and trailing whitespace,
\* and not null.
C5_ReplyIsTrimmed ==
    \A r \in Requests :
        (/\ Answered(r)
         /\ crew_result[r].raw.s # <<>>
         /\ ~IsTrimOf(NO_RESPONSE_MARKER, crew_result[r].raw.s))
        => /\ response[r].status = 200
           /\ response[r].ctype = "json"
           /\ response[r].keys = {"response_text"}
           /\ ~response[r].response_text.null
           /\ IsTrimOf(response[r].response_text.s, crew_result[r].raw.s)

C5_Witness ==
    \E r \in Requests :
        /\ Answered(r)
        /\ response[r].response_text = Text(<<"h", " ", "i">>)
        /\ Len(crew_result[r].raw.s) > 3

\* C6: when the request has the three fields and format_chat_data raises,
\* the response is 500 {"error": "Internal server error formatting data"},
\* with no text of the exception.
C6_FormattingErrorIs500 ==
    \A r \in Requests :
        (/\ Done(r)
         /\ data[r].kind = "obj"
         /\ RequiredKeys \subseteq data[r].keys
         /\ FormatError(data[r].history, data[r].new_message) # "")
        => /\ response[r] =
                  [status |-> 500, ctype |-> "json", keys |-> {"error"},
                   error |-> "Internal server error formatting data",
                   response_text |-> NullText]
           /\ e[r] = FormatError(data[r].history, data[r].new_message)
           /\ response[r].error # e[r]

C6_Witness ==
    \E r \in Requests :
        /\ Done(r)
        /\ e[r] = "KeyError: 'sender'"
        /\ Len(data[r].history.items) = 2
        /\ response[r].status = 500

\* C7: when crew.kickoff or the interpretation of its result raises, the
\* response is 500 {"error": "Internal server error processing message with
\* AI"}, with no response_text and no text of the exception.
C7_AgentErrorIs500 ==
    \A r \in Requests :
        (Done(r) /\ kickoff_calls[r] > 0 /\ e[r] # "")
        => /\ response[r] =
                  [status |-> 500, ctype |-> "json", keys |-> {"error"},
                   error |-> "Internal server error processing message with AI",
                   response_text |-> NullText]
           /\ "response_text" \notin response[r].keys
           /\ response[r].error # e[r]

C7_Witness ==
    \E r \in Requests :
        /\ Done(r)
        /\ crew_result[r].kind = "other"
        /\ e[r] = "AttributeError: object has no attribute 'raw'"
        /\ response[r].status = 500

\* s cut at its newline characters; no line for the empty string.
RECURSIVE SplitLines(_)
SplitLines(s) ==
    IF \A i \in 1..Len(s) : s[i] # "\n"
    THEN <<s>>
    ELSE LET i == CHOOSE k \in 1..Len(s) :
                      s[k] = "\n" /\ \A j \in 1..(k - 1) : s[j] # "\n"
         IN <<SubSeq(s, 1, i - 1)>> \o SplitLines(SubSeq(s, i + 1, Len(s)))
LinesOf(s) == IF s = <<>> THEN <<>> ELSE SplitLines(s)

\* "[sender]: text"
Line(msg) == <<"[">> \o msg.sender \o <<"]">> \o <<":", " ">> \o msg.text
ExpectedLines(history) ==
    [i \in 1..Len(history.items) |-> Line(history.items[i])]

NewlineFree(msg) ==
    /\ \A i \in 1..Len(msg.sender) : msg.sender[i] # "\n"
    /\ \A i \in 1..Len(msg.text) : msg.text[i] # "\n"

\* Where line i starts in the newline-joined lines, less one.
RECURSIVE Offset(_, _)
Offset(lines, i) ==
    IF i = 1 THEN 0 ELSE Offset(lines, i - 1) + Len(lines[i - 1]) + 1

\* s is the lines in order, one newline character between two of them.
IsNewlineJoined(s, lines) ==
    /\ lines = <<>> => s = <<>>
    /\ lines # <<>> =>
           Len(s) = Offset(lines, Len(lines)) + Len(lines[Len(lines)])
    /\ \A i \in 1..Len(lines) :
           /\ SubSeq(s, Offset(lines, i) + 1, Offset(lines, i) + Len(lines[i]))
                  = lines[i]
           /\ i > 1 => s[Offset(lines, i)] = "\n"

\* C8, as claimed: for every history and new_message the transcript has
\* exactly one line per history entry, line i being "[sender_i]: text_i",
\* and is empty for an empty history; the new message is "[sender]: text".
C8_OneLinePerEntry ==
    \A r \in Requests :
        (Formatted(r) /\ data[r].history.kind = "list")
        => /\ LinesOf(history_str[r]) = ExpectedLines(data[r].history)
           /\ new_message_str[r] = Line(data[r].new_message)

\* C8, amended: the transcript is the strings "[sender_i]: text_i" in input
\* order with one newline character between two of them, empty for an empty
\* history, and the new message is "[sender]: text"; the transcript has
\* exactly one line per entry, line i being "[sender_i]: text_i", when no
\* sender and no text of the history holds a newline character.
C8_NewlineJoinedEntries ==
    \A r \in Requests :
        (Formatted(r) /\ data[r].history.kind = "list")
        => /\ IsNewlineJoined(history_str[r], ExpectedLines(data[r].history))
           /\ new_message_str[r] = Line(data[r].new_message)
           /\ data[r].history.items = <<>> => history_str[r] = <<>>
           /\ (\A i \in 1..Len(data[r].history.items) :
                   NewlineFree(data[r].history.items[i]))
              => LinesOf(history_str[r]) = ExpectedLines(data[r].history)

C8_Witness ==
    \E r \in Requests :
        /\ Formatted(r)
        /\ data[r].history.kind = "list"
        /\ Len(data[r].history.items) = 2
        /\ data[r].history.items[1] # data[r].history.items[2]
        /\ \A i \in 1..2 : NewlineFree(data[r].history.items[i])
        /\ Len(LinesOf(history_str[r])) = 2

\* Validation and formatting both succeed for the request.
Accepted(q) ==
    /\ q.is_json
    /\ q.body.kind = "obj"
    /\ RequiredKeys \subseteq q.body.keys
    /\ FormatError(q.body.history, q.body.new_message) = ""

\* C9: crew.kickoff is called once for a request whose validation and
\* formatting succeeded, never for a request answered 400 or with the
\* formatting 500, and never a second time.
C9_KickoffCalledOnce ==
    \A r \in Requests :
        /\ kickoff_calls[r] <= 1
        /\ Done(r) => kickoff_calls[r] = (IF Accepted(req[r]) THEN 1 ELSE 0)
        /\ (Done(r) /\ response[r].status = 400) => kickoff_calls[r] = 0
        /\ (Done(r) /\ response[r].error = "Internal server error formatting data")
           => kickoff_calls[r] = 0

C9_Witness ==
    \E r \in Requests :
        /\ Done(r)
        /\ e[r] \in KickoffErrors
        /\ kickoff_calls[r] = 1
        /\ Accepted(req[r])

====
